---- MODULE Spec2Model ----
(***************************************************************************)
(* Model of the approval-consensus engine of manual-approval:              *)
(* approvalFromComments (approval.go) with its helpers approversIndex,     *)
(* isApproved and isDenied, and the word lists of constants.go.            *)
(*                                                                         *)
(* A string is a sequence of one-character strings; a comment is a record  *)
(* [user, body]; a Go slice is a sequence (Go index k is TLA+ index k+1).  *)
(***************************************************************************)
EXTENDS Integers, Sequences, FiniteSets, TLC

VARIABLES
    comments,                \* argument: the issue's comments, oldest first
    approvers,               \* argument: the configured approver handles
    minimumApprovalsArg,     \* argument: minimumApprovals as passed by the caller
    multipleDeploymentNames, \* argument: the deployment-name allow-list
    remainingApprovers,      \* local: approvers whose approval is not yet counted
    minimumApprovals,        \* local: minimumApprovals after line 90-92
    idx,                     \* position in comments of the range loop (1-based)
    counted,                 \* history: positions of the approvals counted at 138-140
    pc,                      \* "call", "loop", "done" (returned) or "panic"
    approvalStatus,          \* returned status
    deploymentNames,         \* returned deployment names
    error,                   \* returned error
    secondCall               \* a second call over the same approvers slice

vars == <<comments, approvers, minimumApprovalsArg, multipleDeploymentNames,
          remainingApprovers, minimumApprovals, idx, counted, pc,
          approvalStatus, deploymentNames, error, secondCall>>

\* the variables of the first call
firstCall == <<comments, approvers, minimumApprovalsArg, multipleDeploymentNames,
               remainingApprovers, minimumApprovals, idx, counted, pc,
               approvalStatus, deploymentNames, error>>

args == <<comments, approvers, minimumApprovalsArg, multipleDeploymentNames>>

-----------------------------------------------------------------------------
(* Strings *)

Range(s) == {s[k] : k \in 1..Len(s)}

NL == "\n"

\* The letters of the word lists; a body holds these, their upper-case forms,
\* and punctuation.
UpperOf == [c \in {"a","d","e","g","i","l","m","n","o","p","r","s","t","v","y"} |->
    CASE c = "a" -> "A" [] c = "d" -> "D" [] c = "e" -> "E" [] c = "g" -> "G"
      [] c = "i" -> "I" [] c = "l" -> "L" [] c = "m" -> "M" [] c = "n" -> "N"
      [] c = "o" -> "O" [] c = "p" -> "P" [] c = "r" -> "R" [] c = "s" -> "S"
      [] c = "t" -> "T" [] c = "v" -> "V" [] c = "y" -> "Y"]

\* (?i): a pattern letter p matches the character c when c is p in either case.
\* Go folds by unicode.SimpleFold, whose orbit of "s" also holds U+017F (LATIN
\* SMALL LETTER LONG S), written here as the one-character token "LONG_S".
FoldMatches(p, c) ==
    \/ c = p
    \/ p \in DOMAIN UpperOf /\ c = UpperOf[p]
    \/ p = "s" /\ c = "LONG_S"

\* strings.Contains(s, ch) for a one-character ch
Contains(s, ch) == \E k \in 1..Len(s) : s[k] = ch

\* Position of the first ch in s, 0 when there is none
RECURSIVE IndexFrom(_, _, _)
IndexFrom(s, ch, k) ==
    IF k > Len(s) THEN 0
    ELSE IF s[k] = ch THEN k
    ELSE IndexFrom(s, ch, k + 1)

\* strings.Split(s, ch) for a one-character separator: the pieces between the
\* separators, always at least one piece.
RECURSIVE Split(_, _)
Split(s, ch) ==
    LET p == IndexFrom(s, ch, 1) IN
    IF p = 0 THEN <<s>>
    ELSE <<SubSeq(s, 1, p - 1)>> \o Split(SubSeq(s, p + 1, Len(s)), ch)

\* regexp.MustCompile(`\[(.*)\]`).FindStringSubmatch(s): the leftmost "[" that
\* has a "]" after it with no newline in between ("." matches no newline),
\* taken greedily up to the last such "]".  <<>> (nil) when nothing matches,
\* else <<whole match, group 1>>.
CloserOf(s, p) ==
    {q \in (p + 1)..Len(s) :
        /\ s[q] = "]"
        /\ \A k \in (p + 1)..(q - 1) : s[k] # NL}

Max(S) == CHOOSE x \in S : \A y \in S : y <= x
Min(S) == CHOOSE x \in S : \A y \in S : x <= y

\* FindStringSubmatch for the pattern \[(.*) : the closing bracket not required
FindStringSubmatchOpen(s) ==
    LET opens == {p \in 1..Len(s) : s[p] = "["} IN
    IF opens = {} THEN <<>>
    ELSE LET p == Min(opens)
             q == Min({k \in p..Len(s) : k = Len(s) \/ s[k + 1] = NL})
         IN <<SubSeq(s, p, q), SubSeq(s, p + 1, q)>>

FindStringSubmatch(s) ==
    LET opens == {p \in 1..Len(s) : s[p] = "[" /\ CloserOf(s, p) # {}} IN
    IF opens = {} THEN <<>>
    ELSE LET p == Min(opens)
             q == Max(CloserOf(s, p))
         IN <<SubSeq(s, p, q), SubSeq(s, p + 1, q - 1)>>

-----------------------------------------------------------------------------
(* constants.go *)

approvedWords ==
    << <<"a","p","p","r","o","v","e","d">>, <<"a","p","p","r","o","v","e">>,
       <<"l","g","t","m">>, <<"y","e","s">> >>

deniedWords ==
    << <<"d","e","n","i","e","d">>, <<"d","e","n","y">>, <<"n","o">> >>

approvalStatusPending == "pending"
approvalStatusApproved == "approved"
approvalStatusDenied == "denied"

-----------------------------------------------------------------------------
(* approval.go helpers *)

\* approversIndex: Go index of the first occurrence of name, -1 when absent
approversIndex(list, name) ==
    LET hits == {k \in 1..Len(list) : list[k] = name} IN
    IF hits = {} THEN -1 ELSE Min(hits) - 1

\* s starts with word under (?i)
HasWordPrefix(word, s) ==
    /\ Len(s) >= Len(word)
    /\ \A k \in 1..Len(word) : FoldMatches(word[k], s[k])

\* (?i)^word[.!]*\n*$ : the word, then any run of "." and "!", then any run of
\* newlines, then the end of the text
MatchesApprovedPattern(word, s) ==
    /\ HasWordPrefix(word, s)
    /\ \E k \in Len(word)..Len(s) :
          /\ \A j \in (Len(word) + 1)..k : s[j] \in {".", "!"}
          /\ \A j \in (k + 1)..Len(s) : s[j] = NL

\* MatchesDeniedPattern with "$" read as in Perl: also before one final newline
MatchesDeniedPatternPerlDollar(word, s) ==
    /\ HasWordPrefix(word, s)
    /\ \E n \in {Len(s), Len(s) - 1} :
          /\ n = Len(s) \/ s[Len(s)] = NL
          /\ \/ n = Len(word)
             \/ n = Len(word) + 1 /\ s[n] \in {".", "!"}

\* (?i)^word[.!]?$ : the word, then at most one "." or "!", then the end of the
\* text ("$" without the m flag matches only at the very end)
MatchesDeniedPattern(word, s) ==
    /\ HasWordPrefix(word, s)
    /\ \/ Len(s) = Len(word)
       \/ Len(s) = Len(word) + 1 /\ s[Len(s)] \in {".", "!"}

\* isApproved / isDenied: the patterns always compile, so err is always nil and
\* only the boolean is modelled.
isApproved(commentBody) ==
    \E w \in 1..Len(approvedWords) : MatchesApprovedPattern(approvedWords[w], commentBody)

\* isDenied with the loop of line 179 left ranging over approvedWords
isDeniedOverApprovedWords(commentBody) ==
    \E w \in 1..Len(approvedWords) : MatchesDeniedPattern(approvedWords[w], commentBody)

isDenied(commentBody) ==
    \E w \in 1..Len(deniedWords) : MatchesDeniedPattern(deniedWords[w], commentBody)

-----------------------------------------------------------------------------
(* approvalFromComments *)

nil == "nil"
ErrCommentNotValid == "errors.comment by not valid"
ErrDeploymentNameInvalid == "errors.deployment name is invalid"

\* NormalizeMinimumApprovals without lines 90-92: zero stays zero
NormalizeMissing(m, approverList) == m

\* lines 90-92: zero means "all the approvers"
NormalizeMinimumApprovals(m, approverList) ==
    IF m = 0 THEN Len(approverList) ELSE m

\* DeploymentNameBlock without the test len(multipleDeploymentNames) != 0 of
\* line 104: any "[" opens the block
DeploymentNameBlockAnyList(body, names) ==
    IF Contains(body, "[")
    THEN LET commentBodySplit == Split(body, "[")
             deploymentNamesRaw == <<"[">> \o commentBodySplit[2]
             matches == FindStringSubmatch(deploymentNamesRaw)
         IN IF Len(matches) # 2
            THEN [kind |-> "error", commentBody |-> commentBodySplit[1],
                  bodyDeploymentNames |-> <<>>, err |-> ErrCommentNotValid]
            ELSE IF Len(names) > 0
            THEN [kind |-> "panic", commentBody |-> commentBodySplit[1],
                  bodyDeploymentNames |-> <<>>, err |-> nil]
            ELSE [kind |-> "error", commentBody |-> commentBodySplit[1],
                  bodyDeploymentNames |-> <<>>, err |-> ErrDeploymentNameInvalid]
    ELSE [kind |-> "ok", commentBody |-> body,
          bodyDeploymentNames |-> <<>>, err |-> nil]

\* lines 103-128: the deployment-name block of one loop iteration.
\* kind "ok": fall through to line 130 with commentBody and bodyDeploymentNames;
\* kind "error": return at line 114 or 124; kind "panic": the store into the nil
\* map validDeploymentNamesMap at line 119 (declared at 117, never made).
DeploymentNameBlock(body, names) ==
    IF Contains(body, "[") /\ Len(names) # 0
    THEN LET commentBodySplit == Split(body, "[")
             deploymentNamesRaw == <<"[">> \o commentBodySplit[2]
             matches == FindStringSubmatch(deploymentNamesRaw)
         IN IF Len(matches) # 2
            THEN [kind |-> "error", commentBody |-> commentBodySplit[1],
                  bodyDeploymentNames |-> <<>>, err |-> ErrCommentNotValid]
            ELSE IF Len(names) > 0
            \* line 118-119: the first iteration of the range stores into nil
            THEN [kind |-> "panic", commentBody |-> commentBodySplit[1],
                  bodyDeploymentNames |-> <<>>, err |-> nil]
            \* line 121-125: a nil map reads false for every key, and
            \* strings.Split yields at least one token
            ELSE [kind |-> "error", commentBody |-> commentBodySplit[1],
                  bodyDeploymentNames |-> <<>>, err |-> ErrDeploymentNameInvalid]
    ELSE [kind |-> "ok", commentBody |-> body,
          bodyDeploymentNames |-> <<>>, err |-> nil]

\* CompletesQuorum with the "+ 1" of line 135 left out
CompletesQuorumLate(remaining, approverList, m) ==
    Len(remaining) = Len(approverList) - m

\* CompletesQuorum as "this approval brings the count to the threshold or
\* beyond" in place of the equality of line 135
CompletesQuorumAtLeast(remaining, approverList, m) ==
    Len(approverList) - Len(remaining) + 1 >= m

\* line 135: this approval is the one that completes the quorum
CompletesQuorum(remaining, approverList, m) ==
    Len(remaining) = Len(approverList) - m + 1

\* SwapRemove without the overwrite of line 138: the last element is dropped,
\* whoever approved
SwapRemoveNoSwap(remaining, approverIdx) ==
    SubSeq(remaining, 1, Len(remaining) - 1)

\* lines 138-139: overwrite slot approverIdx with the last element, drop the last
SwapRemove(remaining, approverIdx) ==
    LET moved == [remaining EXCEPT ![approverIdx + 1] = remaining[Len(remaining)]]
    IN SubSeq(moved, 1, Len(remaining) - 1)

\* The shape of what one loop iteration yields.
\* kind: "skip" (97-99), "count" (138-140), "ignore" (fell off the end of the
\* body), "approved" (136), "denied" (148), "error" (114, 124), "panic" (119).
Outcome(kind, remaining, status, names, err) ==
    [kind |-> kind, remaining |-> remaining, status |-> status,
     names |-> names, err |-> err]

\* lines 130-149: the vote, on the body left by the deployment-name block
Vote(remaining, approverIdx, commentBody, bodyDeploymentNames, approverList, m) ==
    IF isApproved(commentBody)
    THEN IF CompletesQuorum(remaining, approverList, m)
         THEN Outcome("approved", remaining, approvalStatusApproved,
                      bodyDeploymentNames, nil)
         ELSE Outcome("count", SwapRemove(remaining, approverIdx),
                      approvalStatusPending, <<>>, nil)
    ELSE IF isDenied(commentBody)
    THEN Outcome("denied", remaining, approvalStatusDenied, <<>>, nil)
    ELSE Outcome("ignore", remaining, approvalStatusPending, <<>>, nil)

\* Iteration with the deployment-name block run before the author is looked up
IterationParseFirst(remaining, comment, approverList, m, names) ==
    LET approverIdx == approversIndex(remaining, comment.user)
        blk == DeploymentNameBlock(comment.body, names)
    IN IF blk.kind = "error"
       THEN Outcome("error", remaining, approvalStatusPending, <<>>, blk.err)
       ELSE IF blk.kind = "panic"
       THEN Outcome("panic", remaining, approvalStatusPending, <<>>, nil)
       ELSE IF approverIdx < 0
       THEN Outcome("skip", remaining, approvalStatusPending, <<>>, nil)
       ELSE Vote(remaining, approverIdx, blk.commentBody, blk.bodyDeploymentNames,
                 approverList, m)

\* lines 95-149: one iteration of the range loop over comments
Iteration(remaining, comment, approverList, m, names) ==
    LET commentUser == comment.user
        approverIdx == approversIndex(remaining, commentUser)
    IN IF approverIdx < 0
       THEN Outcome("skip", remaining, approvalStatusPending, <<>>, nil)
       ELSE LET blk == DeploymentNameBlock(comment.body, names) IN
            IF blk.kind = "error"
            THEN Outcome("error", remaining, approvalStatusPending, <<>>, blk.err)
            ELSE IF blk.kind = "panic"
            THEN Outcome("panic", remaining, approvalStatusPending, <<>>, nil)
            ELSE Vote(remaining, approverIdx, blk.commentBody,
                      blk.bodyDeploymentNames, approverList, m)

\* What a call produces: a return of (status, names, err), or a panic.
Returned(status, names, err) ==
    [outcome |-> "return", status |-> status, names |-> names, err |-> err]
Panicked ==
    [outcome |-> "panic", status |-> "none", names |-> <<>>, err |-> "none"]

\* lines 94-152 from comment k on, with the remaining approvers as given
RECURSIVE RunLoop(_, _, _, _, _, _)
RunLoop(cs, k, remaining, approverList, m, names) ==
    IF k > Len(cs) THEN Returned(approvalStatusPending, <<>>, nil)
    ELSE LET it == Iteration(remaining, cs[k], approverList, m, names) IN
         IF it.kind \in {"skip", "count", "ignore"}
         THEN RunLoop(cs, k + 1, it.remaining, approverList, m, names)
         ELSE IF it.kind = "panic" THEN Panicked
         ELSE Returned(it.status, it.names, it.err)

\* lines 86-153: the whole call as a function of its arguments
approvalFromComments(cs, approverList, m, names) ==
    RunLoop(cs, 1, approverList, approverList,
            NormalizeMinimumApprovals(m, approverList), names)

-----------------------------------------------------------------------------
(* approvalFromComments of the earlier version: three arguments, two results *)

ReturnedV1(status, err) == [status |-> status, err |-> err]

\* lines 95-121 of the earlier version: one iteration of the range loop.
\* kind "skip" (97-99), "count" (110-112), "ignore", "approved" (108),
\* "denied" (120); isApproved and isDenied are those of the current version.
IterationV1(remaining, comment, approverList, m) ==
    LET commentUser == comment.user
        approverIdx == approversIndex(remaining, commentUser)
        commentBody == comment.body
    IN IF approverIdx < 0
       THEN [kind |-> "skip", remaining |-> remaining]
       ELSE IF isApproved(commentBody)
       THEN IF Len(remaining) = Len(approverList) - m + 1
            THEN [kind |-> "approved", remaining |-> remaining]
            ELSE [kind |-> "count",
                  remaining |->
                      SubSeq([remaining EXCEPT ![approverIdx + 1] = remaining[Len(remaining)]],
                             1, Len(remaining) - 1)]
       ELSE IF isDenied(commentBody)
       THEN [kind |-> "denied", remaining |-> remaining]
       ELSE [kind |-> "ignore", remaining |-> remaining]

\* lines 94-124 of the earlier version from comment k on
RECURSIVE RunLoopV1(_, _, _, _, _)
RunLoopV1(cs, k, remaining, approverList, m) ==
    IF k > Len(cs) THEN ReturnedV1(approvalStatusPending, nil)
    ELSE LET it == IterationV1(remaining, cs[k], approverList, m) IN
         IF it.kind = "approved" THEN ReturnedV1(approvalStatusApproved, nil)
         ELSE IF it.kind = "denied" THEN ReturnedV1(approvalStatusDenied, nil)
         ELSE RunLoopV1(cs, k + 1, it.remaining, approverList, m)

\* lines 86-125 of the earlier version
approvalFromCommentsV1(cs, approverList, m) ==
    RunLoopV1(cs, 1, approverList, approverList,
              IF m = 0 THEN Len(approverList) ELSE m)

-----------------------------------------------------------------------------
(* Inputs *)

MaxComments == 3

Str_approve == <<"a","p","p","r","o","v","e">>
Str_no == <<"n","o">>
Blue == <<"b","l","u","e">>
Green == <<"g","r","e","e","n">>
Red == <<"r","e","d">>

\* approve[blue,green]   approve[blue,red]   approve[blue
Str_approveBlueGreen == Str_approve \o <<"[">> \o Blue \o <<",">> \o Green \o <<"]">>
Str_approveBlueRed == Str_approve \o <<"[">> \o Blue \o <<",">> \o Red \o <<"]">>
Str_approveUnclosed == Str_approve \o <<"[">> \o Blue
\* approve[blue<newline>]   approve[blue[green]   "approved " (trailing space)
Str_approveNewline == Str_approve \o <<"[">> \o Blue \o <<NL, "]">>
Str_approveNested == Str_approve \o <<"[">> \o Blue \o <<"[">> \o Green \o <<"]">>
Str_approvedSpace == Str_approve \o <<"d", " ">>

Comment(user, body) == [user |-> user, body |-> body]

\* alice and bob are the handles approver lists are drawn from; dave is in none.
CommentPool ==
    {Comment(u, b) : u \in {"alice", "bob"}, b \in {Str_approve, Str_no}}
    \cup {Comment("alice", b) : b \in {Str_approveBlueGreen, Str_approveUnclosed}}
    \cup {Comment("dave", b) : b \in {Str_approve, Str_approveUnclosed}}

\* comments for the deployment-name block: every shape of bracket by alice
BracketPool ==
    {Comment("alice", b) : b \in {Str_approve, Str_approveBlueGreen, Str_approveBlueRed,
                                   Str_approveUnclosed, Str_approveNewline,
                                   Str_approveNested}}
    \cup {Comment("bob", b) : b \in {Str_approve, Str_no, Str_approvedSpace}}
    \cup {Comment("dave", Str_approveBlueRed)}

ApproverLists ==
    {<<>>, <<"alice">>, <<"alice", "bob">>, <<"alice", "alice">>}

\* in range (1..len), the zero sentinel, and out of range on both sides
MinimumApprovalsOf(approverList) == (0 - 1)..(Len(approverList) + 1)

AllowLists == {<<>>, <<Blue, Green>>}

SeqsUpTo(S, n) == UNION {[1..k -> S] : k \in 0..n}

\* comments that are no vote: an empty body, a body that is no vote word, a
\* stranger's comment, brackets; and the votes around them
NoisePool ==
    {Comment("alice", b) : b \in {Str_approve, <<>>, Str_approvedSpace,
                                   Str_approveBlueGreen, Str_approveUnclosed}}
    \cup {Comment("bob", Str_no), Comment("dave", Str_approveUnclosed)}

NoiseApproverLists == {<<"alice">>, <<"alice", "bob">>}

\* longest run of characters put after a word
MaxSuffix == 2

\* a word in upper case, with a capital initial, and with U+017F for each "s"
UpperCase(w) == [k \in 1..Len(w) |-> UpperOf[w[k]]]
Capitalized(w) == [k \in 1..Len(w) |-> IF k = 1 THEN UpperOf[w[k]] ELSE w[k]]
WithLongS(w) == [k \in 1..Len(w) |-> IF w[k] = "s" THEN "LONG_S" ELSE w[k]]

\* the vote words, and "approv", which is none
Stems == Range(approvedWords) \cup Range(deniedWords) \cup {<<"a","p","p","r","o","v">>}

\* bodies around the vote words: a word in some case, after nothing or a
\* space, before a run of ".", "!", newline and space
WordBodies ==
    {pre \o cased \o suf :
        pre \in {<<>>, <<" ">>},
        cased \in UNION {{w, UpperCase(w), Capitalized(w), WithLongS(w)} : w \in Stems},
        suf \in SeqsUpTo({".", "!", NL, " "}, MaxSuffix)}

\* what follows the comment under test
WordTails ==
    {<<>>, <<Comment("alice", Str_approveBlueGreen)>>,
     <<Comment("alice", Str_approveUnclosed)>>, <<Comment("dave", Str_approve)>>}

\* longest comment list of each of two calls run side by side
MaxTwoCallComments == 2

\* the frame of a second call: its arguments (the approvers are the first
\* call's), its locals, its position and what it produced
SecondCallOf(cs, m, names) ==
    [comments |-> cs, minimumApprovalsArg |-> m, multipleDeploymentNames |-> names,
     remainingApprovers |-> <<>>, minimumApprovals |-> m, idx |-> 0,
     pc |-> "call", result |-> "none"]

NoSecondCall == [pc |-> "none"]

TwoCallPool ==
    {Comment("alice", b) : b \in {Str_approve, Str_approveBlueGreen, Str_approveUnclosed}}
    \cup {Comment("bob", Str_no), Comment("dave", Str_approve)}

SecondCallPool ==
    {Comment("alice", Str_approve), Comment("bob", Str_approve), Comment("bob", Str_no)}

\* three approvers, so that a removal at line 138-139 can reorder the rest
OrderPool ==
    {Comment(u, Str_approve) : u \in {"alice", "bob", "carol", "dave"}}
    \cup {Comment("alice", b) : b \in {Str_approveBlueGreen, Str_approveUnclosed}}
    \cup {Comment("bob", Str_no)}

OrderApproverLists == {<<"alice", "bob", "carol">>, <<"carol", "alice", "bob">>}

BracketApproverLists == {<<"alice">>, <<"alice", "bob">>, <<"bob", "alice">>}

-----------------------------------------------------------------------------
(* The call as a state machine *)

Init ==
    /\ comments \in SeqsUpTo(CommentPool, MaxComments)
    /\ approvers \in ApproverLists
    /\ minimumApprovalsArg \in MinimumApprovalsOf(approvers)
    /\ multipleDeploymentNames \in AllowLists
    /\ remainingApprovers = <<>>
    /\ minimumApprovals = minimumApprovalsArg
    /\ idx = 0
    /\ counted = <<>>
    /\ pc = "call"
    /\ approvalStatus = "none"
    /\ deploymentNames = <<>>
    /\ error = "none"
    /\ secondCall = NoSecondCall

\* calls with the deployment-name feature in use
InitBrackets ==
    /\ comments \in SeqsUpTo(BracketPool, MaxComments)
    /\ approvers \in BracketApproverLists
    /\ minimumApprovalsArg \in 0..Len(approvers)
    /\ multipleDeploymentNames = <<Blue, Green>>
    /\ remainingApprovers = <<>>
    /\ minimumApprovals = minimumApprovalsArg
    /\ idx = 0
    /\ counted = <<>>
    /\ pc = "call"
    /\ approvalStatus = "none"
    /\ deploymentNames = <<>>
    /\ error = "none"
    /\ secondCall = NoSecondCall

\* lines 87-92: copy the approvers, normalise the threshold, enter the loop
Enter ==
    /\ pc = "call"
    /\ remainingApprovers' = approvers
    /\ minimumApprovals' = NormalizeMinimumApprovals(minimumApprovals, approvers)
    /\ idx' = 1
    /\ pc' = "loop"
    /\ UNCHANGED <<args, secondCall, counted, approvalStatus, deploymentNames, error>>

InLoop == pc = "loop" /\ idx <= Len(comments)

Current ==
    Iteration(remainingApprovers, comments[idx], approvers, minimumApprovals,
              multipleDeploymentNames)

\* SkipComment with a return in place of the continue of line 98
SkipReturnsPending ==
    /\ InLoop
    /\ Current.kind = "skip"
    /\ approvalStatus' = approvalStatusPending
    /\ deploymentNames' = <<>>
    /\ error' = nil
    /\ pc' = "done"
    /\ UNCHANGED <<args, secondCall, counted, remainingApprovers, minimumApprovals, idx>>

\* lines 97-99: the author is not a remaining approver
SkipComment ==
    /\ InLoop
    /\ Current.kind = "skip"
    /\ idx' = idx + 1
    /\ UNCHANGED <<args, secondCall, counted, remainingApprovers, minimumApprovals, pc,
                   approvalStatus, deploymentNames, error>>

\* CountApproval with lines 87-88 replaced by remainingApprovers := approvers:
\* the slices share their array, and the store of line 138 lands in the
\* caller's list
CountApprovalAliased ==
    /\ InLoop
    /\ Current.kind = "count"
    /\ remainingApprovers' = Current.remaining
    /\ approvers' =
          [approvers EXCEPT ![approversIndex(remainingApprovers, comments[idx].user) + 1] =
                                 remainingApprovers[Len(remainingApprovers)]]
    /\ counted' = Append(counted, idx)
    /\ idx' = idx + 1
    /\ UNCHANGED <<comments, minimumApprovalsArg, multipleDeploymentNames, secondCall,
                   minimumApprovals, pc, approvalStatus, deploymentNames, error>>

\* lines 134-140: an approval short of the quorum is counted
CountApproval ==
    /\ InLoop
    /\ Current.kind = "count"
    /\ remainingApprovers' = Current.remaining
    /\ counted' = Append(counted, idx)
    /\ idx' = idx + 1
    /\ UNCHANGED <<args, secondCall, minimumApprovals, pc, approvalStatus, deploymentNames, error>>

\* line 150: a remaining approver's comment that is neither approval nor denial
IgnoreComment ==
    /\ InLoop
    /\ Current.kind = "ignore"
    /\ idx' = idx + 1
    /\ UNCHANGED <<args, secondCall, counted, remainingApprovers, minimumApprovals, pc,
                   approvalStatus, deploymentNames, error>>

\* ReturnApproved without the return of line 136: the approval that completes
\* the quorum is passed over and the loop goes on
ApprovalContinues ==
    /\ InLoop
    /\ Current.kind = "approved"
    /\ idx' = idx + 1
    /\ UNCHANGED <<args, secondCall, counted, remainingApprovers, minimumApprovals, pc,
                   approvalStatus, deploymentNames, error>>

\* lines 135-136
ReturnApproved ==
    /\ InLoop
    /\ Current.kind = "approved"
    /\ approvalStatus' = approvalStatusApproved
    /\ deploymentNames' = Current.names
    /\ error' = nil
    /\ pc' = "done"
    /\ UNCHANGED <<args, secondCall, counted, remainingApprovers, minimumApprovals, idx>>

\* ReturnDenied without the return of line 148: the loop goes on
DenialContinues ==
    /\ InLoop
    /\ Current.kind = "denied"
    /\ idx' = idx + 1
    /\ UNCHANGED <<args, secondCall, counted, remainingApprovers, minimumApprovals, pc,
                   approvalStatus, deploymentNames, error>>

\* lines 147-148
ReturnDenied ==
    /\ InLoop
    /\ Current.kind = "denied"
    /\ approvalStatus' = approvalStatusDenied
    /\ deploymentNames' = <<>>
    /\ error' = nil
    /\ pc' = "done"
    /\ UNCHANGED <<args, secondCall, counted, remainingApprovers, minimumApprovals, idx>>

\* lines 113-114, 123-124
ReturnError ==
    /\ InLoop
    /\ Current.kind = "error"
    /\ approvalStatus' = approvalStatusPending
    /\ deploymentNames' = <<>>
    /\ error' = Current.err
    /\ pc' = "done"
    /\ UNCHANGED <<args, secondCall, counted, remainingApprovers, minimumApprovals, idx>>

\* line 119: assignment to entry in nil map
NilMapPanic ==
    /\ InLoop
    /\ Current.kind = "panic"
    /\ pc' = "panic"
    /\ UNCHANGED <<args, secondCall, counted, remainingApprovers, minimumApprovals, idx,
                   approvalStatus, deploymentNames, error>>

\* line 152: the comments are exhausted
ReturnPending ==
    /\ pc = "loop"
    /\ idx > Len(comments)
    /\ approvalStatus' = approvalStatusPending
    /\ deploymentNames' = <<>>
    /\ error' = nil
    /\ pc' = "done"
    /\ UNCHANGED <<args, secondCall, counted, remainingApprovers, minimumApprovals, idx>>

Next ==
    \/ Enter
    \/ SkipComment
    \/ CountApproval
    \/ IgnoreComment
    \/ ReturnApproved
    \/ ReturnDenied
    \/ ReturnError
    \/ NilMapPanic
    \/ ReturnPending

Spec == Init /\ [][Next]_vars

SpecBrackets == InitBrackets /\ [][Next]_vars

\* calls over comments most of which are no vote
InitNoise ==
    /\ comments \in SeqsUpTo(NoisePool, MaxComments)
    /\ approvers \in NoiseApproverLists
    /\ minimumApprovalsArg \in 0..Len(approvers)
    /\ multipleDeploymentNames \in AllowLists
    /\ remainingApprovers = <<>>
    /\ minimumApprovals = minimumApprovalsArg
    /\ idx = 0
    /\ counted = <<>>
    /\ pc = "call"
    /\ approvalStatus = "none"
    /\ deploymentNames = <<>>
    /\ error = "none"
    /\ secondCall = NoSecondCall

SpecNoise == InitNoise /\ [][Next]_vars

\* calls whose first comment is alice's, with a body drawn from WordBodies
InitWords ==
    /\ comments \in {<<Comment("alice", b)>> \o t : b \in WordBodies, t \in WordTails}
    /\ approvers = <<"alice", "bob">>
    /\ minimumApprovalsArg \in {1, 2}
    /\ multipleDeploymentNames = <<Blue, Green>>
    /\ remainingApprovers = <<>>
    /\ minimumApprovals = minimumApprovalsArg
    /\ idx = 0
    /\ counted = <<>>
    /\ pc = "call"
    /\ approvalStatus = "none"
    /\ deploymentNames = <<>>
    /\ error = "none"
    /\ secondCall = NoSecondCall

SpecWords == InitWords /\ [][Next]_vars

\* lines 87-92 of the second call: it copies the approvers as they are now
SecondCallEnter ==
    /\ secondCall.pc = "call"
    /\ secondCall' = [secondCall EXCEPT
                        !.remainingApprovers = approvers,
                        !.minimumApprovals = NormalizeMinimumApprovals(@, approvers),
                        !.idx = 1,
                        !.pc = "loop"]
    /\ UNCHANGED firstCall

\* lines 94-152 of the second call: one loop iteration, or the return of line 152
SecondCallIterate ==
    /\ secondCall.pc = "loop"
    /\ LET it == IF secondCall.idx > Len(secondCall.comments)
                 THEN Outcome("pending", secondCall.remainingApprovers,
                              approvalStatusPending, <<>>, nil)
                 ELSE Iteration(secondCall.remainingApprovers,
                                secondCall.comments[secondCall.idx], approvers,
                                secondCall.minimumApprovals,
                                secondCall.multipleDeploymentNames)
       IN secondCall' =
             IF it.kind \in {"skip", "count", "ignore"}
             THEN [secondCall EXCEPT !.remainingApprovers = it.remaining, !.idx = @ + 1]
             ELSE [secondCall EXCEPT
                      !.pc = "done",
                      !.result = IF it.kind = "panic" THEN Panicked
                                 ELSE Returned(it.status, it.names, it.err)]
    /\ UNCHANGED firstCall

\* two calls over one approvers slice, their steps interleaved in any order
InitTwoCalls ==
    /\ comments \in SeqsUpTo(TwoCallPool, MaxTwoCallComments)
    /\ approvers = <<"alice", "bob">>
    /\ minimumApprovalsArg \in {1, 2}
    /\ multipleDeploymentNames \in AllowLists
    /\ remainingApprovers = <<>>
    /\ minimumApprovals = minimumApprovalsArg
    /\ idx = 0
    /\ counted = <<>>
    /\ pc = "call"
    /\ approvalStatus = "none"
    /\ deploymentNames = <<>>
    /\ error = "none"
    /\ secondCall \in {SecondCallOf(cs, 2, <<>>) :
                          cs \in SeqsUpTo(SecondCallPool, MaxTwoCallComments)}

NextTwoCalls ==
    \/ Next
    \/ SecondCallEnter
    \/ SecondCallIterate

SpecTwoCalls == InitTwoCalls /\ [][NextTwoCalls]_vars

\* calls with three distinct approvers
InitOrder ==
    /\ comments \in SeqsUpTo(OrderPool, MaxComments)
    /\ approvers \in OrderApproverLists
    /\ minimumApprovalsArg \in 1..Len(approvers)
    /\ multipleDeploymentNames \in AllowLists
    /\ remainingApprovers = <<>>
    /\ minimumApprovals = minimumApprovalsArg
    /\ idx = 0
    /\ counted = <<>>
    /\ pc = "call"
    /\ approvalStatus = "none"
    /\ deploymentNames = <<>>
    /\ error = "none"
    /\ secondCall = NoSecondCall

SpecOrder == InitOrder /\ [][Next]_vars

\* What the machine produced, in the shape approvalFromComments(...) has
Result ==
    IF pc = "panic" THEN Panicked
    ELSE Returned(approvalStatus, deploymentNames, error)

Terminated == pc \in {"done", "panic"}

TypeOK ==
    /\ pc \in {"call", "loop", "done", "panic"}
    /\ idx \in 0..(Len(comments) + 1)
    /\ Terminated => Result = approvalFromComments(comments, approvers,
                                  minimumApprovalsArg, multipleDeploymentNames)

-----------------------------------------------------------------------------
(* Properties *)

Distinct(list) ==
    \A i, j \in 1..Len(list) : i # j => list[i] # list[j]

\* minimumApprovals as the caller means it: 0 stands for "all of them"
RequiredApprovals ==
    IF minimumApprovalsArg = 0 THEN Len(approvers) ELSE minimumApprovalsArg

\* the configured approvers with an approval-word comment among the first n
ApprovingMembers(n) ==
    {a \in Range(approvers) :
        \E k \in 1..n : comments[k].user = a /\ isApproved(comments[k].body)}

\* the author of comment k had an approval counted before the loop got to k
CountedAuthor(u) == \E j \in Range(counted) : comments[j].user = u

\* C1 (quorum safety): with pairwise-distinct approvers, a call that returns
\* Approved has seen, up to and including the decisive comment, approval-word
\* comments by at least minimumApprovals distinct approvers (0 read as all).
C1_QuorumSafety ==
    (pc = "done" /\ approvalStatus = approvalStatusApproved /\ Distinct(approvers))
        => Cardinality(ApprovingMembers(idx)) >= RequiredApprovals

C1_Witness ==
    /\ pc = "done"
    /\ approvalStatus = approvalStatusApproved
    /\ Distinct(approvers)
    /\ RequiredApprovals = Len(approvers)
    /\ Len(approvers) > 1
    /\ idx = Len(approvers) + 1

\* --- reading a body the way the comment syntax is documented ---

\* s holds a "[", a "]" after it, and no newline in between: \[(.*)\] matches
MatchesBracketList(s) ==
    \E p, q \in 1..Len(s) :
        /\ p < q
        /\ s[p] = "["
        /\ s[q] = "]"
        /\ \A k \in (p + 1)..(q - 1) : s[k] # NL

\* the text of body from its first "[" onward
BracketTail(body) == SubSeq(body, IndexFrom(body, "[", 1), Len(body))

\* body is <text>[<list>] with one bracket pair, closed at the very end
IsBracketForm(body) ==
    /\ Contains(body, "[")
    /\ body[Len(body)] = "]"
    /\ \A k \in (IndexFrom(body, "[", 1) + 1)..(Len(body) - 1) :
          body[k] \notin {"[", "]", NL}

\* for a body in bracket form: the text before the "[" and the listed names
VoteWord(body) == SubSeq(body, 1, IndexFrom(body, "[", 1) - 1)
ListedNames(body) == Split(SubSeq(body, IndexFrom(body, "[", 1) + 1, Len(body) - 1), ",")

AllNamesAllowed(body) ==
    \A k \in 1..Len(ListedNames(body)) :
        ListedNames(body)[k] \in Range(multipleDeploymentNames)

\* with the allow-list in use, a bracket that is not a clean list of allowed names
BadBracket(body) ==
    /\ multipleDeploymentNames # <<>>
    /\ Contains(body, "[")
    /\ ~(IsBracketForm(body) /\ AllNamesAllowed(body))

\* C2 (quorum approves), as claimed: for distinct approvers and 1 <= m <= |A|,
\* if by comment k approval comments of m distinct approvers have appeared and
\* no comment before k is a denial or carries a bad bracket, the call returns
\* Approved with no error.
C2_QuorumApproves ==
    (/\ Terminated
     /\ Distinct(approvers)
     /\ minimumApprovalsArg \in 1..Len(approvers)
     /\ \E k \in 1..Len(comments) :
           /\ Cardinality(ApprovingMembers(k)) >= minimumApprovalsArg
           /\ \A j \in 1..(k - 1) :
                 ~isDenied(comments[j].body) /\ ~BadBracket(comments[j].body))
        => (pc = "done" /\ approvalStatus = approvalStatusApproved /\ error = nil)

\* C3 (denial veto), as claimed: with an empty allow-list, distinct approvers
\* and 1 <= m <= |A|, a denial-word comment by ANY member of A, reached with
\* fewer than m approvals counted, makes the call return Denied.
C3_DenialVetoAnyMember ==
    [][(/\ InLoop
        /\ multipleDeploymentNames = <<>>
        /\ Distinct(approvers)
        /\ minimumApprovalsArg \in 1..Len(approvers)
        /\ isDenied(comments[idx].body)
        /\ comments[idx].user \in Range(approvers)
        /\ Len(counted) < minimumApprovalsArg)
          => (pc' = "done" /\ approvalStatus' = approvalStatusDenied)]_vars

\* C3, amended: the same, for a denial-word comment by a member of A whose own
\* approval has not been counted earlier in the sequence.
C3_DenialVetoUncounted ==
    [][(/\ InLoop
        /\ multipleDeploymentNames = <<>>
        /\ Distinct(approvers)
        /\ minimumApprovalsArg \in 1..Len(approvers)
        /\ isDenied(comments[idx].body)
        /\ comments[idx].user \in Range(approvers)
        /\ ~CountedAuthor(comments[idx].user)
        /\ Len(counted) < minimumApprovalsArg)
          => (pc' = "done" /\ approvalStatus' = approvalStatusDenied)]_vars

\* a denial that arrived after an approval had been counted, and was decisive
C3_Witness ==
    /\ pc = "done"
    /\ approvalStatus = approvalStatusDenied
    /\ multipleDeploymentNames = <<>>
    /\ Distinct(approvers)
    /\ minimumApprovalsArg \in 1..Len(approvers)
    /\ Len(counted) > 0
    /\ ~CountedAuthor(comments[idx].user)

\* C5 (no double counting), as claimed: for EVERY approver list, duplicates
\* included, an approval comment by an author whose approval was already
\* counted is passed over: nothing is counted and the loop goes on.
C5_NoDoubleCountAnyList ==
    [][(/\ InLoop
        /\ CountedAuthor(comments[idx].user)
        /\ isApproved(comments[idx].body))
          => (pc' = "loop" /\ counted' = counted
              /\ remainingApprovers' = remainingApprovers)]_vars

\* C5, amended: the same, for approver lists of pairwise-distinct handles.
C5_NoDoubleCountDistinct ==
    [][(/\ InLoop
        /\ Distinct(approvers)
        /\ CountedAuthor(comments[idx].user)
        /\ isApproved(comments[idx].body))
          => (pc' = "loop" /\ counted' = counted
              /\ remainingApprovers' = remainingApprovers)]_vars

\* the loop has passed over a second approval of an author already counted
C5_Witness ==
    /\ pc = "loop"
    /\ Distinct(approvers)
    /\ \E j \in 1..(idx - 1) :
          /\ j <= Len(comments)
          /\ j \notin Range(counted)
          /\ CountedAuthor(comments[j].user)
          /\ isApproved(comments[j].body)
          /\ \E i \in Range(counted) : i < j /\ comments[i].user = comments[j].user

Insert(cs, p, x) == SubSeq(cs, 1, p - 1) \o <<x>> \o SubSeq(cs, p, Len(cs))
Remove(cs, p) == SubSeq(cs, 1, p - 1) \o SubSeq(cs, p + 1, Len(cs))

CallOn(cs) ==
    approvalFromComments(cs, approvers, minimumApprovalsArg, multipleDeploymentNames)

\* comments of dave, who is on no approver list, that no call above holds:
\* a denial word and a bracket list with a name outside the allow-list
StrayComments == {Comment("dave", Str_no), Comment("dave", Str_approveBlueRed)}

\* C4 (non-member noninterference): the call's whole result (status, names,
\* error, or the panic) is also the result of the call on the comments with any
\* one comment of a non-approver deleted, whatever its body and position, and
\* with a stray comment of a non-approver inserted at any position.  (Two lists
\* that differ by one non-approver comment are compared from the longer one by
\* the deletion, so the deletion covers the insertion of every pool comment.)
C4_NonMemberNoninterference ==
    Terminated =>
        /\ \A p \in 1..Len(comments) :
              comments[p].user \notin Range(approvers)
                  => CallOn(Remove(comments, p)) = Result
        /\ \A p \in 1..(Len(comments) + 1) : \A x \in StrayComments :
              CallOn(Insert(comments, p, x)) = Result

\* a call that got past a non-approver's unclosed bracket, with the allow-list
\* in use, and went on to approve
C4_Witness ==
    /\ pc = "done"
    /\ approvalStatus = approvalStatusApproved
    /\ multipleDeploymentNames # <<>>
    /\ \E p \in 1..(idx - 1) :
          /\ comments[p].user \notin Range(approvers)
          /\ Contains(comments[p].body, "[")
          /\ ~MatchesBracketList(BracketTail(comments[p].body))

\* C6 (zero means all): a call with minimumApprovals = 0 returns what the call
\* with minimumApprovals = len(approvers) returns on the same arguments, and
\* the other way round, the empty approver list included.
C6_ZeroMeansAll ==
    Terminated =>
        /\ minimumApprovalsArg = 0 =>
              Result = approvalFromComments(comments, approvers, Len(approvers),
                                            multipleDeploymentNames)
        /\ minimumApprovalsArg = Len(approvers) =>
              Result = approvalFromComments(comments, approvers, 0,
                                            multipleDeploymentNames)

C6_Witness ==
    /\ pc = "done"
    /\ minimumApprovalsArg = 0
    /\ Len(approvers) > 1
    /\ approvalStatus = approvalStatusApproved

\* C7 (first decisive comment wins): if the call on a prefix of the comments
\* returns Approved or Denied, the call on all the comments returns that same
\* status, the same names and no error.
C7_FirstDecisiveWins ==
    Terminated =>
        \A n \in 0..Len(comments) :
            LET r == CallOn(SubSeq(comments, 1, n)) IN
            (r.outcome = "return"
             /\ r.status \in {approvalStatusApproved, approvalStatusDenied})
                => (Result = r /\ error = nil)

\* a decision followed by a comment that would have decided otherwise, or failed
C7_Witness ==
    /\ pc = "done"
    /\ approvalStatus = approvalStatusApproved
    /\ \E j \in (idx + 1)..Len(comments) :
          /\ comments[j].user \in Range(remainingApprovers)
          /\ \/ isDenied(comments[j].body)
             \/ BadBracket(comments[j].body)

\* the loop stopped at comment idx (a return from inside the loop, or the panic)
StoppedAtComment == Terminated /\ idx <= Len(comments)

\* C8 (targeted approval), as claimed: with the allow-list in use, when the
\* comment that completes the quorum is <approval-word>[n1,...,nk] with every
\* ni allowed, the call returns Approved, no error, and exactly the names
\* n1..nk of that comment, in order.
C8_TargetedApproval ==
    (/\ StoppedAtComment
     /\ multipleDeploymentNames # <<>>
     /\ comments[idx].user \in Range(remainingApprovers)
     /\ Len(counted) + 1 = RequiredApprovals
     /\ IsBracketForm(comments[idx].body)
     /\ isApproved(VoteWord(comments[idx].body))
     /\ AllNamesAllowed(comments[idx].body))
        => (/\ pc = "done"
            /\ approvalStatus = approvalStatusApproved
            /\ error = nil
            /\ deploymentNames = ListedNames(comments[idx].body))

\* C9 (unknown deployment name), as claimed: with the allow-list in use, a
\* remaining approver's comment in bracket form with a name outside the
\* allow-list makes the call return the unknown-name error, status Pending and
\* no names.
C9_UnknownDeploymentName ==
    (/\ StoppedAtComment
     /\ multipleDeploymentNames # <<>>
     /\ comments[idx].user \in Range(remainingApprovers)
     /\ IsBracketForm(comments[idx].body)
     /\ ~AllNamesAllowed(comments[idx].body))
        => (/\ pc = "done"
            /\ error = ErrDeploymentNameInvalid
            /\ approvalStatus = approvalStatusPending
            /\ deploymentNames = <<>>)

\* C10 (malformed deployment syntax): with the allow-list in use, when the loop
\* reaches a remaining approver's comment that holds a "[" and whose text from
\* the first "[" onward does not match \[(.*)\], the call returns the
\* malformed-syntax error, status Pending and no names, whatever was counted.
C10_MalformedSyntax ==
    [][(/\ InLoop
        /\ multipleDeploymentNames # <<>>
        /\ comments[idx].user \in Range(remainingApprovers)
        /\ Contains(comments[idx].body, "[")
        /\ ~MatchesBracketList(BracketTail(comments[idx].body)))
          => (/\ pc' = "done"
              /\ error' = ErrCommentNotValid
              /\ approvalStatus' = approvalStatusPending
              /\ deploymentNames' = <<>>)]_vars

\* the malformed-syntax error, returned after an approval had been counted
C10_Witness ==
    /\ pc = "done"
    /\ error = ErrCommentNotValid
    /\ Len(counted) > 0
    /\ ~MatchesBracketList(BracketTail(comments[idx].body))

\* C11 (Pending is only a final result), as claimed: whenever the call returns
\* status Pending, no comment is left unexamined (the loop did not stop at a
\* comment that has others after it).
C11_PendingOnlyAtEnd ==
    (pc = "done" /\ approvalStatus = approvalStatusPending)
        => idx >= Len(comments)

\* C11, amended: whenever the call returns status Pending with a nil error,
\* every comment has been examined and none was decisive: on no prefix of the
\* comments does the call return anything but (Pending, no names, nil).
C11_PendingNilOnlyAtEnd ==
    (pc = "done" /\ approvalStatus = approvalStatusPending /\ error = nil)
        => /\ idx = Len(comments) + 1
           /\ \A n \in 0..Len(comments) :
                 CallOn(SubSeq(comments, 1, n)) = Returned(approvalStatusPending, <<>>, nil)

\* Pending after the loop went through an approval, a passed-over comment and
\* an ignored one
C11_Witness ==
    /\ pc = "done"
    /\ approvalStatus = approvalStatusPending
    /\ error = nil
    /\ Len(counted) > 0
    /\ Len(comments) > Len(counted) + 1
    /\ \E k \in 1..Len(comments) : comments[k].user \notin Range(approvers)

\* the comment under examination is by a still-remaining approver, contains a
\* "[", and the allow-list is in use
BracketCase ==
    /\ Len(multipleDeploymentNames) # 0
    /\ comments[idx].user \in Range(remainingApprovers)
    /\ \E i \in 1..Len(comments[idx].body) : comments[idx].body[i] = "["

\* the comment under examination is noise: its author is not a remaining
\* approver, or its body is neither an approval nor a denial
NoiseComment ==
    \/ comments[idx].user \notin Range(remainingApprovers)
    \/ ~(isApproved(comments[idx].body) \/ isDenied(comments[idx].body))

\* C12 (noise is tolerated, not failed on): a step returns a non-nil error (or
\* fails) only in the bracket case; outside the bracket case a noise comment
\* is skipped, that is, the loop moves on to the next comment with the
\* remaining approvers and the count untouched and nothing returned.
C12_NoiseTolerated ==
    [][InLoop =>
        /\ ((pc' = "done" /\ error' # nil) \/ pc' = "panic") => BracketCase
        /\ (NoiseComment /\ ~BracketCase) =>
              /\ pc' = "loop"
              /\ idx' = idx + 1
              /\ remainingApprovers' = remainingApprovers
              /\ counted' = counted
              /\ error' = error]_vars

\* a call that met a stranger's comment, an approver's empty body and an
\* approver's bracket while the allow-list was empty, and returned a nil error
C12_Witness ==
    /\ pc = "done"
    /\ error = nil
    /\ multipleDeploymentNames = <<>>
    /\ idx = Len(comments) + 1
    /\ \E k \in 1..Len(comments) : comments[k].user \notin Range(approvers)
    /\ \E k \in 1..Len(comments) :
          comments[k].user \in Range(approvers) /\ comments[k].body = <<>>
    /\ \E k \in 1..Len(comments) :
          comments[k].user \in Range(approvers) /\ Contains(comments[k].body, "[")

\* c is the letter p in lower or upper case
EitherCase(p, c) == c = p \/ c = UpperOf[p]

\* c is the letter p in lower or upper case, or folds to it (U+017F to "s")
EitherCaseOrFolded(p, c) == EitherCase(p, c) \/ (p = "s" /\ c = "LONG_S")

\* the first n characters of body spell one of the words, letter by letter
\* under SameLetter
SpellsWord(words, body, n, SameLetter(_, _)) ==
    \E w \in 1..Len(words) :
        /\ Len(words[w]) = n
        /\ \A k \in 1..n : SameLetter(words[w][k], body[k])

\* an approval word, then any number of "." and "!", then any number of
\* newlines, and nothing else
ApprovalForm(body, SameLetter(_, _)) ==
    \E n \in 0..Len(body) : \E i \in n..Len(body) :
        /\ SpellsWord(approvedWords, body, n, SameLetter)
        /\ \A j \in (n + 1)..i : body[j] \in {".", "!"}
        /\ \A j \in (i + 1)..Len(body) : body[j] = NL

\* a denial word, then at most one "." or "!", and nothing else
DenialForm(body, SameLetter(_, _)) ==
    \E n \in 0..Len(body) :
        /\ SpellsWord(deniedWords, body, n, SameLetter)
        /\ \/ Len(body) = n
           \/ Len(body) = n + 1 /\ body[n + 1] \in {".", "!"}

\* the examples of the claim
VoteExamples ==
    /\ isApproved(<<"A","p","p","r","o","v","e","d">>)
    /\ isApproved(<<"a","p","p","r","o","v","e","d","!">>)
    /\ isApproved(<<"A","P","P","R","O","V","E",".",NL>>)
    /\ ~isApproved(<<"a","p","p","r","o","v","e","d"," ">>)

\* the first comment (by a remaining approver, no bracket in it) was taken as
\* an approval, as a denial, by line 130-149
TakenAsApproval == Current.kind \in {"approved", "count"}
TakenAsDenial == Current.kind = "denied"

\* C13 (whole-body vote matching), as claimed: a body is an approval exactly
\* when it is an approval word in any letter case, then "."/"!"s, then
\* newlines; a denial exactly when it is a denial word in any letter case,
\* then at most one "." or "!"; and the loop takes the comment accordingly.
C13_VoteMatching ==
    /\ VoteExamples
    /\ \A k \in 1..Len(comments) :
          /\ isApproved(comments[k].body) <=> ApprovalForm(comments[k].body, EitherCase)
          /\ isDenied(comments[k].body) <=> DenialForm(comments[k].body, EitherCase)
    /\ (pc = "loop" /\ idx = 1) =>
          /\ TakenAsApproval <=> ApprovalForm(comments[1].body, EitherCase)
          /\ TakenAsDenial <=> DenialForm(comments[1].body, EitherCase)

\* C13, amended: the same, with "any letter case" read as Go's (?i) reads it:
\* a character matches a letter of the word when it is that letter in either
\* case or folds to it, so that U+017F stands for "s".
C13_VoteMatchingFolded ==
    /\ VoteExamples
    /\ \A k \in 1..Len(comments) :
          /\ isApproved(comments[k].body)
                <=> ApprovalForm(comments[k].body, EitherCaseOrFolded)
          /\ isDenied(comments[k].body)
                <=> DenialForm(comments[k].body, EitherCaseOrFolded)
    /\ (pc = "loop" /\ idx = 1) =>
          /\ TakenAsApproval <=> ApprovalForm(comments[1].body, EitherCaseOrFolded)
          /\ TakenAsDenial <=> DenialForm(comments[1].body, EitherCaseOrFolded)

\* "APPROVE.\n" was counted as an approval
C13_Witness ==
    /\ comments[1].body = <<"A","P","P","R","O","V","E",".",NL>>
    /\ counted = <<1>>

\* C14 (inputs unchanged): no step of a call changes the approver list, the
\* comment list or the allow-list; and of two calls over the same approver
\* list, their steps interleaved in any order (one after the other included),
\* each returns what the call returns alone on its arguments.
C14_InputsUnchanged ==
    /\ [][/\ approvers' = approvers
          /\ comments' = comments
          /\ multipleDeploymentNames' = multipleDeploymentNames]_vars
    /\ [](Terminated =>
            Result = approvalFromComments(comments, <<"alice", "bob">>,
                                          minimumApprovalsArg, multipleDeploymentNames))
    /\ [](secondCall.pc = "done" =>
            secondCall.result =
                approvalFromComments(secondCall.comments, <<"alice", "bob">>,
                                     secondCall.minimumApprovalsArg,
                                     secondCall.multipleDeploymentNames))

\* the second call ran to an approval while the first was inside its loop with
\* an approver already removed from its working copy
C14_Witness ==
    /\ pc = "loop"
    /\ Len(remainingApprovers) < Len(approvers)
    /\ secondCall.pc = "done"
    /\ secondCall.result = Returned(approvalStatusApproved, <<>>, nil)

\* every reordering of a list of distinct elements
PermutationsOf(list) ==
    {p \in [1..Len(list) -> Range(list)] : Range(p) = Range(list)}

\* the approvers whose approval has not been counted, in the order of the
\* approver list: what an order-preserving removal leaves
StableRemaining ==
    SelectSeq(approvers, LAMBDA a : \A k \in Range(counted) : comments[k].user # a)

SameElements(s, t) ==
    /\ Len(s) = Len(t)
    /\ \A x \in Range(s) \cup Range(t) :
          Cardinality({k \in 1..Len(s) : s[k] = x})
              = Cardinality({k \in 1..Len(t) : t[k] = x})

\* C15 (the order of the approver list does not matter): for distinct handles,
\* the call returns the same (status, names, error) for every permutation of
\* the approver list; and the working list kept by swap-with-last removal
\* holds, at every point of the loop, the handles an order-preserving removal
\* would have left.
C15_OrderIrrelevant ==
    Distinct(approvers) =>
        /\ pc \in {"loop", "done", "panic"} =>
              SameElements(remainingApprovers, StableRemaining)
        /\ Terminated =>
              \A P \in PermutationsOf(approvers) :
                  approvalFromComments(comments, P, minimumApprovalsArg,
                                       multipleDeploymentNames) = Result

\* all three approved; the first removal moved the last approver into the
\* first slot
C15_Witness ==
    /\ pc = "done"
    /\ approvalStatus = approvalStatusApproved
    /\ Len(approvers) = 3
    /\ Len(counted) = 2
    /\ comments[counted[1]].user = approvers[1]
    /\ remainingApprovers[1] = approvers[3]

Occurrences(list, x) == Cardinality({k \in 1..Len(list) : list[k] = x})

\* C16 (working-set invariant): inside the loop, with the normalised threshold
\* between 1 and the number of approvers, the remaining list is a sub-multiset
\* of the approver list, the approvers gone from it are as many as the
\* approvals counted, fewer than the threshold, and the list is not empty.
C16_WorkingSet ==
    (pc = "loop" /\ 1 <= minimumApprovals /\ minimumApprovals <= Len(approvers)) =>
        /\ \A x \in Range(remainingApprovers) :
              Occurrences(remainingApprovers, x) <= Occurrences(approvers, x)
        /\ Len(approvers) - Len(remainingApprovers) = Len(counted)
        /\ Len(counted) < minimumApprovals
        /\ remainingApprovers # <<>>

\* a loop iteration starts with one approval counted and one more needed
C16_Witness ==
    /\ InLoop
    /\ minimumApprovals = 2
    /\ Len(approvers) = 2
    /\ Len(counted) = 1
    /\ Len(remainingApprovers) = 1

\* the vote of lines 130-149 with the two checks in the other order: denial
\* first, then approval
VoteDenialFirst(remaining, approverIdx, commentBody, approverList, m) ==
    IF isDenied(commentBody)
    THEN Outcome("denied", remaining, approvalStatusDenied, <<>>, nil)
    ELSE IF isApproved(commentBody)
    THEN IF Len(remaining) = Len(approverList) - m + 1
         THEN Outcome("approved", remaining, approvalStatusApproved, <<>>, nil)
         ELSE Outcome("count", SwapRemove(remaining, approverIdx),
                      approvalStatusPending, <<>>, nil)
    ELSE Outcome("ignore", remaining, approvalStatusPending, <<>>, nil)

\* C17 (no body is both an approval and a denial): isApproved and isDenied are
\* never both true of a body, and whenever the loop classifies a comment
\* (approval first, as the code does) the verdict is the one the denial-first
\* order gives.
C17_VerdictOrderIrrelevant ==
    /\ \A k \in 1..Len(comments) :
          ~(isApproved(comments[k].body) /\ isDenied(comments[k].body))
    /\ (InLoop /\ Current.kind \in {"approved", "count", "denied", "ignore"}) =>
          Current = VoteDenialFirst(remainingApprovers,
                        approversIndex(remainingApprovers, comments[idx].user),
                        comments[idx].body, approvers, minimumApprovals)

\* "NO!" was taken as a denial
C17_Witness ==
    /\ pc = "done"
    /\ approvalStatus = approvalStatusDenied
    /\ idx = 1
    /\ comments[1].body = <<"N", "O", "!">>

\* C18 (backward compatibility): a call with an empty allow-list returns, for
\* every approver list, threshold and comment sequence (bodies with "["
\* included), the status the three-argument earlier version returns, an error
\* that is nil exactly when the earlier version's is, and no deployment names.
C18_BackwardCompatible ==
    (Terminated /\ multipleDeploymentNames = <<>>) =>
        /\ pc = "done"
        /\ approvalStatus =
              approvalFromCommentsV1(comments, approvers, minimumApprovalsArg).status
        /\ (error = nil) <=>
              (approvalFromCommentsV1(comments, approvers, minimumApprovalsArg).err = nil)
        /\ deploymentNames = <<>>

\* with an empty allow-list, an approver's comment with a "[" was passed over
\* and a later comment decided
C18_Witness ==
    /\ pc = "done"
    /\ multipleDeploymentNames = <<>>
    /\ approvalStatus = approvalStatusApproved
    /\ \E k \in 1..(idx - 1) :
          /\ comments[k].user \in Range(approvers)
          /\ Contains(comments[k].body, "[")

\* the threshold as passed is out of range: negative, above the number of
\* approvers, or there are no approvers at all
OutOfRange ==
    \/ minimumApprovalsArg < 0
    \/ minimumApprovalsArg > Len(approvers)
    \/ approvers = <<>>

\* C19 (an out-of-range threshold never approves): with the threshold out of
\* range the call never returns Approved; it returns Pending with a nil error
\* after the last comment, unless it stopped at a remaining approver's denial
\* (Denied) or at a remaining approver's bracket with the allow-list in use
\* (an error, or the failure of line 119).
C19_OutOfRangeNeverApproves ==
    (OutOfRange /\ Terminated) =>
        /\ ~(pc = "done" /\ approvalStatus = approvalStatusApproved)
        /\ \/ /\ Result = Returned(approvalStatusPending, <<>>, nil)
              /\ idx = Len(comments) + 1
           \/ /\ Result = Returned(approvalStatusDenied, <<>>, nil)
              /\ idx <= Len(comments)
              /\ comments[idx].user \in Range(remainingApprovers)
              /\ DenialForm(comments[idx].body, EitherCaseOrFolded)
           \/ /\ idx <= Len(comments)
              /\ BracketCase
              /\ \/ pc = "panic"
                 \/ pc = "done" /\ approvalStatus = approvalStatusPending /\ error # nil

\* both approvers approved, three approvals were asked of two approvers, and
\* the call returned Pending
C19_Witness ==
    /\ pc = "done"
    /\ approvalStatus = approvalStatusPending
    /\ Len(approvers) = 2
    /\ minimumApprovalsArg = 3
    /\ Len(counted) = 2

====
